---- MODULE Spec2Model ----
(***************************************************************************)
(* A model of the allocation and prediction engine of                      *)
(* src/scripts/resource_manager.py (AdvancedResourceManager and its        *)
(* helpers AdvancedQueueManager, ResourcePredictor, CostOptimizer).        *)
(*                                                                         *)
(* Fixed-point conventions (Python floats become integers):                *)
(*   cost_per_cpu_hour   in units of 0.05            (0.1 -> 2)            *)
(*   a cost              in units of 1/25600         (100.0 -> 2560000)    *)
(*   speed / reliability in tenths / hundredths      (0.7 -> 7, 0.95 -> 95)*)
(*   a score             in units of 1/256000                              *)
(*   storage_threshold   in hundredths               (0.85 -> 85)          *)
(*   speed_factor        in tenths                   (1.5 -> 15)           *)
(*   alert threshold storage_usage in hundredths     (0.95 -> 95)          *)
(*   a usage_percent of a sample in tenths of a percent (99.6 -> 996)      *)
(*   storage, memory in whole GB, walltime in whole hours.                 *)
(***************************************************************************)
EXTENDS Integers, Sequences, FiniteSets, TLC

(***************************************************************************)
(* Bounds of the model.  The code keeps 1000 history entries and looks at  *)
(* the last 100 allocation records; the model runs the same code with a    *)
(* small cap and a small window.  Timestamps are counted modulo StampMod.  *)
(***************************************************************************)
HistoryCap == 2
RecentWindow == 1
StampMod == 5

Min2(a, b) == IF a <= b THEN a ELSE b
Max2(a, b) == IF a >= b THEN a ELSE b

RECURSIVE SeqSum(_)
SeqSum(s) == IF s = <<>> THEN 0 ELSE Head(s) + SeqSum(Tail(s))

\* Python's s[-n:] for n >= 1: the last n elements, or all of s when shorter.
LastN(s, n) == IF Len(s) <= n THEN s ELSE SubSeq(s, Len(s) - n + 1, Len(s))

(***************************************************************************)
(* Configuration: load_config's default_config, and the persisted          *)
(* configuration documents the model starts from.                          *)
(***************************************************************************)
DefaultQueueNames == <<"normal", "hiprio", "long", "gpu">>

DefaultQueues ==
    [n \in {"normal", "hiprio", "long", "gpu"} |->
        CASE n = "normal" ->
               [max_jobs |-> 100, max_cpu_per_job |-> 16, max_memory_per_job |-> 256,
                max_walltime_hours |-> 168, cost_per_cpu_hour |-> 2, priority |-> 1,
                speed_factor |-> 10]
          [] n = "hiprio" ->
               [max_jobs |-> 50, max_cpu_per_job |-> 32, max_memory_per_job |-> 512,
                max_walltime_hours |-> 72, cost_per_cpu_hour |-> 4, priority |-> 2,
                speed_factor |-> 15]
          [] n = "long" ->
               [max_jobs |-> 20, max_cpu_per_job |-> 8, max_memory_per_job |-> 128,
                max_walltime_hours |-> 720, cost_per_cpu_hour |-> 1, priority |-> 3,
                speed_factor |-> 7]
          [] n = "gpu" ->
               [max_jobs |-> 10, max_cpu_per_job |-> 16, max_memory_per_job |-> 256,
                max_walltime_hours |-> 48, cost_per_cpu_hour |-> 10, priority |-> 4,
                speed_factor |-> 20]]

StrategyNames == {"storage_optimized", "time_optimized", "cost_optimized", "balanced"}

DefaultChunkStrategies ==
    [s \in StrategyNames |->
        CASE s = "storage_optimized" -> [max_chunk_size |-> 500, storage_threshold |-> 85]
          [] s = "time_optimized" -> [max_chunk_size |-> 2000, storage_threshold |-> 95]
          [] s = "cost_optimized" -> [max_chunk_size |-> 1000, storage_threshold |-> 90]
          [] s = "balanced" -> [max_chunk_size |-> 1000, storage_threshold |-> 90]]

default_config ==
    [queue_names |-> DefaultQueueNames,
     queues |-> DefaultQueues,
     chunk_strategies |-> DefaultChunkStrategies,
     max_cost_per_job |-> 2560000,
     cost_weight |-> 3, time_weight |-> 4, reliability_weight |-> 3,
     storage_usage |-> 95, queue_wait_time |-> 24]

\* A persisted configuration that adds one site queue with a small memory cap
\* and a high price; every other key is absent from the document.
\* A persisted catalog with two queues of the same profile, "tiny" first.
CustomQueueNames == <<"tiny", "spare">>

CustomQueues ==
    [n \in {"tiny", "spare"} |->
        [max_jobs |-> 5, max_cpu_per_job |-> 64, max_memory_per_job |-> 4,
         max_walltime_hours |-> 24, cost_per_cpu_hour |-> 20, priority |-> 5,
         speed_factor |-> 30]]

RECURSIVE SeqToSet(_)
SeqToSet(s) == IF s = <<>> THEN {} ELSE {Head(s)} \cup SeqToSet(Tail(s))

\* _merge_config restricted to the queue table: every default queue missing
\* from the document is added after the document's own queues; a queue the
\* document has keeps the document's values (the recursion finds no missing
\* key in a complete profile).
MergeQueueNames(docNames) ==
    docNames \o SelectSeq(DefaultQueueNames, LAMBDA n : n \notin SeqToSet(docNames))

MergeQueues(docNames, docQueues) ==
    [n \in SeqToSet(docNames) \cup DOMAIN DefaultQueues |->
        IF n \in SeqToSet(docNames) THEN docQueues[n] ELSE DefaultQueues[n]]

_merge_config(docNames, docQueues) ==
    [default_config EXCEPT !.queue_names = MergeQueueNames(docNames),
                           !.queues = MergeQueues(docNames, docQueues)]

(***************************************************************************)
(* Job requirements the callers submit (JobRequirements), and the          *)
(* allocation the engine answers with (ResourceAllocation).                *)
(***************************************************************************)
Requirements ==
    << [cpus |-> 8, memory_gb |-> 128, walltime_hours |-> 72, storage_gb |-> 5],
       [cpus |-> 16, memory_gb |-> 256, walltime_hours |-> 168, storage_gb |-> 5],
       [cpus |-> 40, memory_gb |-> 4, walltime_hours |-> 10, storage_gb |-> 5],
       [cpus |-> 1, memory_gb |-> 8, walltime_hours |-> 1, storage_gb |-> 0] >>

ReqIds == DOMAIN Requirements

\* best_allocation = None
NoAllocation ==
    [cpus |-> 0, memory_gb |-> 0, walltime_hours |-> 0, queue |-> "None",
     estimated_cost |-> 0, estimated_duration_hours |-> 0, success_probability |-> 0]

(***************************************************************************)
(* AdvancedQueueManager                                                    *)
(***************************************************************************)
QueueFits(cfg, requirements, queue_name) ==
    LET queue_config == cfg.queues[queue_name]
    IN  /\ requirements.cpus <= queue_config.max_cpu_per_job
        /\ requirements.memory_gb <= queue_config.max_memory_per_job
        /\ requirements.walltime_hours <= queue_config.max_walltime_hours

get_available_queues(cfg, requirements) ==
    SelectSeq(cfg.queue_names, LAMBDA queue_name : QueueFits(cfg, requirements, queue_name))

get_total_queue_capacity(cfg) ==
    SeqSum([i \in DOMAIN cfg.queue_names |-> cfg.queues[cfg.queue_names[i]].max_jobs])

(***************************************************************************)
(* CostOptimizer                                                           *)
(***************************************************************************)
\* cpus * walltime * cost_per_cpu_hour * (1 + (memory_gb / 128) * 0.1), in
\* units of 1/25600: cost_per_cpu_hour counts 1/20 and the memory factor is
\* (1280 + memory_gb) / 1280.
estimate_job_cost(cfg, cpus, memory_gb, walltime_hours, queue) ==
    LET cost_per_cpu_hour ==
            IF queue \in DOMAIN cfg.queues THEN cfg.queues[queue].cost_per_cpu_hour ELSE 2
        base_cost == cpus * walltime_hours * cost_per_cpu_hour
    IN  base_cost * (1280 + memory_gb)

calculate_cost_optimal_chunk_size(total_samples) ==
    Min2(2000, Max2(500, total_samples \div 20))

(***************************************************************************)
(* ResourcePredictor                                                       *)
(***************************************************************************)
\* in tenths
_get_queue_speed_factor(queue) ==
    CASE queue = "normal" -> 10
      [] queue = "hiprio" -> 7
      [] queue = "long" -> 15
      [] queue = "gpu" -> 5
      [] OTHER -> 10

\* in hundredths
_get_queue_reliability(queue) ==
    CASE queue = "normal" -> 95
      [] queue = "hiprio" -> 98
      [] queue = "long" -> 90
      [] queue = "gpu" -> 85
      [] OTHER -> 95

\* storage_gb / (cpus * 0.1) * queue_factor, in units of 1/25600 hour.
predict_job_duration(requirements, cpus, memory_gb, queue) ==
    (requirements.storage_gb * _get_queue_speed_factor(queue) * 25600) \div cpus

\* ((min(1, cpus/req.cpus) + min(1, memory_gb/req.memory_gb)) / 2) * reliability,
\* in units of 1/25600.
predict_job_success_probability(requirements, cpus, memory_gb, queue) ==
    LET cpu_num == Min2(requirements.cpus, cpus) * requirements.memory_gb
        mem_num == Min2(requirements.memory_gb, memory_gb) * requirements.cpus
    IN  ((cpu_num + mem_num) * _get_queue_reliability(queue) * 256)
            \div (2 * requirements.cpus * requirements.memory_gb)

\* A predictor that averages over the whole history instead of its newest
\* records.
predict_optimal_chunk_size_Unwindowed(jobs, total_samples, strategy) ==
    IF jobs = <<>> THEN 1000
    ELSE LET similar_jobs == SelectSeq(jobs, LAMBDA job : job.requirements.storage_gb > 0)
         IN  IF similar_jobs # <<>>
             THEN SeqSum([i \in DOMAIN similar_jobs |->
                             similar_jobs[i].allocation.cpus * 100]) \div Len(similar_jobs)
             ELSE 1000

\* The mean of cpus * 100 over the records with storage_gb > 0 among the last
\* RecentWindow records (the code's window is 100), truncated by int().
predict_optimal_chunk_size(jobs, total_samples, strategy) ==
    IF jobs = <<>> THEN 1000
    ELSE LET recent_jobs == LastN(jobs, RecentWindow)
             similar_jobs == SelectSeq(recent_jobs,
                                       LAMBDA job : job.requirements.storage_gb > 0)
         IN  IF similar_jobs # <<>>
             THEN SeqSum([i \in DOMAIN similar_jobs |->
                             similar_jobs[i].allocation.cpus * 100]) \div Len(similar_jobs)
             ELSE 1000

(***************************************************************************)
(* AdvancedResourceManager: allocation                                     *)
(***************************************************************************)
CandidateAllocation(cfg, requirements, queue_name) ==
    LET queue_config == cfg.queues[queue_name]
        cpus == Min2(requirements.cpus, queue_config.max_cpu_per_job)
        memory_gb == Min2(requirements.memory_gb, queue_config.max_memory_per_job)
        walltime_hours == Min2(requirements.walltime_hours, queue_config.max_walltime_hours)
    IN  [cpus |-> cpus, memory_gb |-> memory_gb, walltime_hours |-> walltime_hours,
         queue |-> queue_name,
         estimated_cost |->
             estimate_job_cost(cfg, cpus, memory_gb, walltime_hours, queue_name),
         estimated_duration_hours |->
             predict_job_duration(requirements, cpus, memory_gb, queue_name),
         success_probability |->
             predict_job_success_probability(requirements, cpus, memory_gb, queue_name)]

\* cost_weight * cost + time_weight * duration + reliability_weight * (1 - p)
Score(cfg, a) ==
    cfg.cost_weight * a.estimated_cost
        + cfg.time_weight * a.estimated_duration_hours
        + cfg.reliability_weight * (25600 - a.success_probability)

\* A loop that replaces the best allocation on an equal score as well, so
\* that the last of several equally good queues wins.
BetterScore_OrEqual(score, best_score) == score <= best_score

\* if score < best_score
BetterScore(score, best_score) == score < best_score

\* The loop over available_queues: best is the allocation kept so far and
\* NoAllocation stands for best_score = inf.
RECURSIVE BestOf(_, _, _, _)
BestOf(cfg, requirements, queues, best) ==
    IF queues = <<>> THEN best
    ELSE LET a == CandidateAllocation(cfg, requirements, Head(queues))
         IN  IF best = NoAllocation \/ BetterScore(Score(cfg, a), Score(cfg, best))
             THEN BestOf(cfg, requirements, Tail(queues), a)
             ELSE BestOf(cfg, requirements, Tail(queues), best)

_calculate_optimal_allocation(cfg, requirements) ==
    BestOf(cfg, requirements, get_available_queues(cfg, requirements), NoAllocation)

\* A pass that also scales the predicted duration to the halved cpus.
CorrectivePass_Repredicted(cfg, allocation) ==
    LET cpus == Max2(1, allocation.cpus \div 2)
        memory_gb == Max2(8, allocation.memory_gb \div 2)
    IN  [allocation EXCEPT
            !.cpus = cpus,
            !.memory_gb = memory_gb,
            !.estimated_cost =
                estimate_job_cost(cfg, cpus, memory_gb,
                                  allocation.walltime_hours, allocation.queue),
            !.estimated_duration_hours = (@ * allocation.cpus) \div cpus]

\* The body of the if: cpus and memory halved with their floors, and the
\* cost estimated again from the halved values.
CorrectivePass(cfg, allocation) ==
    LET cpus == Max2(1, allocation.cpus \div 2)
        memory_gb == Max2(8, allocation.memory_gb \div 2)
    IN  [allocation EXCEPT
            !.cpus = cpus,
            !.memory_gb = memory_gb,
            !.estimated_cost =
                estimate_job_cost(cfg, cpus, memory_gb,
                                  allocation.walltime_hours, allocation.queue)]

\* A validation that halves a second time when the cost is still over the
\* ceiling.
_validate_allocation_Twice(cfg, allocation) ==
    IF allocation.estimated_cost > cfg.max_cost_per_job
    THEN LET halved == CorrectivePass(cfg, allocation)
         IN  IF halved.estimated_cost > cfg.max_cost_per_job
             THEN CorrectivePass(cfg, halved) ELSE halved
    ELSE allocation

\* Called with an allocation that is not None.
_validate_allocation(cfg, allocation) ==
    IF allocation.estimated_cost > cfg.max_cost_per_job
    THEN CorrectivePass(cfg, allocation)
    ELSE allocation

(***************************************************************************)
(* AdvancedResourceManager: chunk sizing                                   *)
(***************************************************************************)
\* The body of calculate_optimal_chunk_size after a sample was obtained.
\* storage_per_sample_gb is 0.15, so free * threshold / 0.15 is
\* free * threshold-in-hundredths / 15.
ChunkSizeFrom(cfg, jobs, current_resources, total_samples, strategy) ==
    LET strategy_config == cfg.chunk_strategies[strategy]
        max_samples_by_storage ==
            (current_resources.free_gb * strategy_config.storage_threshold) \div 15
        max_samples_by_queue ==
            get_total_queue_capacity(cfg) * strategy_config.max_chunk_size
        max_samples_by_cpu == current_resources.cpu_available * 20
        optimal_cost_chunk == calculate_cost_optimal_chunk_size(total_samples)
        predicted_optimal == predict_optimal_chunk_size(jobs, total_samples, strategy)
        optimal_samples ==
            Min2(max_samples_by_storage,
              Min2(max_samples_by_queue,
                Min2(max_samples_by_cpu,
                  Min2(optimal_cost_chunk,
                    Min2(predicted_optimal, strategy_config.max_chunk_size)))))
    IN  Max2(optimal_samples, 100)

(***************************************************************************)
(* State                                                                   *)
(***************************************************************************)
VARIABLES
    config_file,   \* data/advanced_resource_config.json
    history_file,  \* data/resource_history.json
    host,          \* what the host and the queueing system answer to a sample
    manager,       \* "none" (not yet constructed), "up", "crashed" (__init__ raised)
    config,        \* self.config
    history,       \* self.history
    snap_seq,      \* the timestamp the next snapshot gets
    call,          \* the last call made to the manager and its arguments
    resources,     \* what the get_current_resources of that call returned
    outcome,       \* what that call returned or raised
    pc,            \* per thread: the statement it is at
    frame,         \* per thread: the locals of its get_current_resources
    doc,           \* a configuration document under _merge_config
    pred           \* a call of a predictor of advanced_features.py and its result

vars == <<config_file, history_file, host, manager, config, history, snap_seq,
          call, resources, outcome, pc, frame, doc, pred>>

\* No document is being merged, no predictor is being called.
NoDoc == [op |-> "none"]
NoPred == [op |-> "none"]

Aside == UNCHANGED <<doc, pred>>

Threads == {"caller", "monitor"}

\* pending is the number of pending jobs bqueues reports for the queue
\* "normal".
AmpleReading ==
    [free_gb |-> 5000, cpu_available |-> 57, memory_available_gb |-> 64,
     cpu_usage_percent |-> 550, memory_usage_percent |-> 44,
     storage_usage_percent |-> 500, pending |-> 10]

\* An idle host, a host with a nearly full disk and a long queue, and a
\* host whose CPUs and memory are nearly all in use.
Readings ==
    { AmpleReading,
      [AmpleReading EXCEPT !.free_gb = 100, !.storage_usage_percent = 996,
                           !.pending = 50],
      [AmpleReading EXCEPT !.cpu_available = 3, !.cpu_usage_percent = 990,
                           !.memory_usage_percent = 990] }

\* The sub-reading of a sample that raises, if any.
Faults == {"none", "cpu", "memory", "storage", "lsf", "network"}

\* The states of the host: every reading without a fault, and each single
\* fault.
HostAnswers ==
    { [fault |-> "none", reading |-> r] : r \in Readings }
    \cup { [fault |-> f, reading |-> AmpleReading] : f \in Faults \ {"none"} }

TotalSamples == {0, 1, 10000, 50000}

\* return None
NoResources ==
    [ok |-> FALSE, timestamp |-> 0, free_gb |-> 0, cpu_available |-> 0,
     memory_available_gb |-> 0, cpu_usage_percent |-> 0, memory_usage_percent |-> 0,
     storage_usage_percent |-> 0, pending |-> 0, lsf |-> "None", network |-> "None"]

NoCall == [op |-> "none", total_samples |-> 0, strategy |-> "None", req |-> 0]

NoOutcome == [status |-> "none", chunk |-> 0, allocation |-> NoAllocation, alerts |-> {}]

EmptyHistory == [kind |-> "dict", job_history |-> <<>>, resource_usage |-> <<>>]

EmptyFrame == [resources |-> NoResources, sliced |-> <<>>]

(***************************************************************************)
(* Construction: load_config, load_history                                 *)
(***************************************************************************)
\* The configuration documents a run can start from.  A document of kind
\* "dict" holds a queue table; the other kinds hold nothing usable.
ConfigFiles ==
    { [kind |-> k, queue_names |-> <<>>, queues |-> [n \in {} |-> 0]] :
          k \in {"absent", "unparseable", "list", "scalar"} }
    \cup { [kind |-> "dict", queue_names |-> CustomQueueNames, queues |-> CustomQueues] }

\* The history documents a run can start from: no file, a file that is not
\* JSON, a JSON list, and a JSON object without the expected keys.
HistoryFiles ==
    { [kind |-> k, job_history |-> <<>>, resource_usage |-> <<>>] :
          k \in {"absent", "unparseable", "list", "nokeys"} }

\* load_config raises when json.load returns something that is not a dict:
\* _merge_config then fails with a TypeError, which load_config does not catch.
load_config_raises(file) == file.kind \in {"list", "scalar"}

load_config(file) ==
    IF file.kind = "dict" THEN _merge_config(file.queue_names, file.queues)
    ELSE default_config

\* save_config, as the document it writes.
save_config(cfg) == [kind |-> "dict", queue_names |-> cfg.queue_names, queues |-> cfg.queues]

\* load_history keeps whatever json.load returned; only a missing or an
\* unparseable file gives the empty histories.
load_history(file) ==
    IF file.kind \in {"absent", "unparseable"} THEN EmptyHistory
    ELSE [kind |-> file.kind, job_history |-> file.job_history,
          resource_usage |-> file.resource_usage]

\* save_history, as the document it would write.  Nothing in the repository
\* calls it: no action of the model does either.
save_history(h) == [kind |-> h.kind, job_history |-> h.job_history,
                    resource_usage |-> h.resource_usage]

\* The process before the manager is constructed.
Init ==
    /\ config_file \in ConfigFiles
    /\ history_file \in HistoryFiles
    /\ host \in HostAnswers
    /\ manager = "none"
    /\ config = default_config
    /\ history = EmptyHistory
    /\ snap_seq = 0
    /\ call = NoCall
    /\ resources = NoResources
    /\ outcome = NoOutcome
    /\ pc = [t \in Threads |-> "idle"]
    /\ frame = [t \in Threads |-> EmptyFrame]
    /\ doc = NoDoc
    /\ pred = NoPred

\* __init__: load_config, load_history, then the monitor thread is started.
\* No operation of the manager calls save_history, so history_file stays as
\* it was.
Init__ ==
    /\ call' = [NoCall EXCEPT !.op = "__init__"]
    /\ resources' = NoResources
    /\ frame' = [t \in Threads |-> EmptyFrame]
    /\ UNCHANGED <<history_file, host, snap_seq>>
    /\ Aside
    /\ IF load_config_raises(config_file)
       THEN /\ manager' = "crashed"
            /\ outcome' = [NoOutcome EXCEPT !.status = "TypeError"]
            /\ pc' = [t \in Threads |-> "idle"]
            /\ UNCHANGED <<config_file, config, history>>
       ELSE /\ manager' = "up"
            /\ config' = load_config(config_file)
            /\ config_file' = save_config(load_config(config_file))
            /\ history' = load_history(history_file)
            /\ outcome' = [NoOutcome EXCEPT !.status = "ok"]
            /\ pc' = [t \in Threads |-> IF t = "monitor" THEN "read" ELSE "idle"]

Construct == manager = "none" /\ Init__

\* The process ends and the manager is created again from the same directory.
Restart == manager = "up" /\ Init__

\* The load on the host or the state of the queueing system changes.
HostChanges(answer) ==
    /\ answer # host
    /\ host' = answer
    /\ call' = NoCall
    /\ resources' = NoResources
    /\ outcome' = NoOutcome
    /\ UNCHANGED <<config_file, history_file, manager, config, history, snap_seq,
                   pc, frame>>
    /\ Aside

(***************************************************************************)
(* get_current_resources                                                   *)
(***************************************************************************)
NextStamp(n) == (n + 1) % StampMod

\* The dict built when every host reading succeeded; a failed queue or
\* network query leaves an empty map in its place.
Snapshot(seq, answer) ==
    [ok |-> TRUE, timestamp |-> seq,
     free_gb |-> answer.reading.free_gb,
     cpu_available |-> answer.reading.cpu_available,
     memory_available_gb |-> answer.reading.memory_available_gb,
     cpu_usage_percent |-> answer.reading.cpu_usage_percent,
     memory_usage_percent |-> answer.reading.memory_usage_percent,
     storage_usage_percent |-> answer.reading.storage_usage_percent,
     pending |-> IF answer.fault = "lsf" THEN 0 ELSE answer.reading.pending,
     lsf |-> IF answer.fault = "lsf" THEN "empty" ELSE "data",
     network |-> IF answer.fault = "network" THEN "empty" ELSE "data"]

\* psutil raising inside the try block
HostReadingRaises(answer) == answer.fault \in {"cpu", "memory", "storage"}

\* list.append followed by the truncation to the last HistoryCap entries.
\* The history keeps the whole snapshot; the model keeps its timestamp.
AppendCapped(list, entry) ==
    LET appended == Append(list, entry)
    IN  IF Len(appended) > HistoryCap THEN LastN(appended, HistoryCap) ELSE appended

\* What get_current_resources returns: None when a host reading raised or
\* when self.history["resource_usage"] raised (a history that is no dict
\* with that key), the snapshot otherwise.
get_current_resources(h, seq, answer) ==
    IF HostReadingRaises(answer) \/ h.kind # "dict" THEN NoResources
    ELSE Snapshot(seq, answer)

\* self.history after get_current_resources
HistoryAfterSample(h, seq, answer) ==
    IF get_current_resources(h, seq, answer).ok
    THEN [h EXCEPT !.resource_usage = AppendCapped(@, seq)]
    ELSE h

SeqAfterSample(h, seq, answer) ==
    IF get_current_resources(h, seq, answer).ok THEN NextStamp(seq) ELSE seq

(***************************************************************************)
(* The manager's operations, each run to completion by the caller          *)
(***************************************************************************)
Up == manager = "up"

Quiet == UNCHANGED <<config_file, history_file, host, manager, config, pc, frame, doc, pred>>

\* The sample every operation starts with.
Sampled ==
    /\ resources' = get_current_resources(history, snap_seq, host)
    /\ snap_seq' = SeqAfterSample(history, snap_seq, host)

Sample ==
    /\ Up
    /\ call' = [NoCall EXCEPT !.op = "get_current_resources"]
    /\ Sampled
    /\ history' = HistoryAfterSample(history, snap_seq, host)
    /\ outcome' = [NoOutcome EXCEPT !.status = "ok"]
    /\ Quiet

calculate_optimal_chunk_size(cfg, h, current_resources, total_samples, strategy) ==
    IF ~current_resources.ok
    THEN cfg.chunk_strategies["balanced"].max_chunk_size
    ELSE ChunkSizeFrom(cfg, h.job_history, current_resources, total_samples, strategy)

ComputeChunkSize(total_samples, strategy) ==
    /\ Up
    /\ call' = [NoCall EXCEPT !.op = "calculate_optimal_chunk_size",
                              !.total_samples = total_samples,
                              !.strategy = strategy]
    /\ Sampled
    /\ history' = HistoryAfterSample(history, snap_seq, host)
    /\ outcome' = [NoOutcome EXCEPT
                      !.status = "ok",
                      !.chunk = calculate_optimal_chunk_size(
                                    config, history', resources', total_samples, strategy)]
    /\ Quiet

\* A record of what was asked for in place of what was granted.
AllocationRecord_Requested(requirements, allocation) ==
    [requirements |-> requirements,
     allocation |-> [allocation EXCEPT !.cpus = requirements.cpus,
                                       !.memory_gb = requirements.memory_gb]]

\* _record_allocation: the record appended to job_history (its timestamp is
\* not modelled: records are told apart by their place in the list).
AllocationRecord(requirements, allocation) ==
    [requirements |-> requirements, allocation |-> allocation]

\* What allocate_resources raises, "ok" when it returns.  With no feasible
\* queue _calculate_optimal_allocation returns None and _validate_allocation
\* reads allocation.estimated_cost; with a history that is no dict
\* _record_allocation fails on self.history["job_history"].
AllocateStatus(cfg, h, requirements) ==
    IF _calculate_optimal_allocation(cfg, requirements) = NoAllocation
    THEN "AttributeError"
    ELSE IF h.kind = "list" THEN "TypeError"
    ELSE IF h.kind = "nokeys" THEN "KeyError"
    ELSE "ok"

allocate_resources(cfg, requirements) ==
    _validate_allocation(cfg, _calculate_optimal_allocation(cfg, requirements))

\* A failed call that restores the history it started with.
FailedAllocationHistory_RolledBack(h, sampled) == h

\* The history an allocate_resources that raises leaves behind: the
\* exception leaves the method after get_current_resources, and nothing
\* undoes the append of the sample.
FailedAllocationHistory(h, sampled) == sampled

Allocate(req) ==
    LET requirements == Requirements[req]
        status == AllocateStatus(config, history, requirements)
        sampled == HistoryAfterSample(history, snap_seq, host)
        allocation == allocate_resources(config, requirements)
    IN  /\ Up
        /\ call' = [NoCall EXCEPT !.op = "allocate_resources", !.req = req]
        /\ Sampled
        /\ IF status = "ok"
           THEN /\ outcome' = [NoOutcome EXCEPT !.status = "ok",
                                                !.allocation = allocation]
                /\ history' = [sampled EXCEPT
                                  !.job_history =
                                      AppendCapped(@, AllocationRecord(requirements,
                                                                       allocation))]
           ELSE /\ outcome' = [NoOutcome EXCEPT !.status = status]
                /\ history' = FailedAllocationHistory(history, sampled)
        /\ Quiet

\* generate_advanced_report: the sample, then reads only.
Report ==
    /\ Up
    /\ call' = [NoCall EXCEPT !.op = "generate_advanced_report"]
    /\ Sampled
    /\ history' = HistoryAfterSample(history, snap_seq, host)
    /\ outcome' = [NoOutcome EXCEPT
                      !.status = IF resources'.ok THEN "ok" ELSE "no_resources"]
    /\ Quiet

\* _check_alerts: the warnings it logs, "storage" for the storage usage and
\* "queue" for the pending jobs of a queue (an empty lsf map has no queue).
_check_alerts(cfg, current_resources) ==
    (IF current_resources.storage_usage_percent > cfg.storage_usage * 10
     THEN {"storage"} ELSE {})
    \cup (IF current_resources.lsf = "data"
              /\ current_resources.pending > cfg.queue_wait_time
          THEN {"queue"} ELSE {})

\* One iteration of _monitor_resources, run without interleaving: the sample,
\* _check_alerts when there is one, the sleep; an exception in either is
\* caught and followed by the 60 s sleep.
MonitorIteration(raises) ==
    /\ Up
    /\ call' = [NoCall EXCEPT !.op = "_monitor_resources"]
    /\ Sampled
    /\ history' = HistoryAfterSample(history, snap_seq, host)
    /\ outcome' = [NoOutcome EXCEPT
                      !.status = IF raises \/ ~resources'.ok
                                 THEN "backoff" ELSE "slept",
                      !.alerts = IF resources'.ok /\ ~raises
                                 THEN _check_alerts(config, resources') ELSE {}]
    /\ Quiet

Next ==
    \/ Construct
    \/ Restart
    \/ \E answer \in HostAnswers : HostChanges(answer)
    \/ Sample
    \/ \E total_samples \in TotalSamples, strategy \in StrategyNames :
            ComputeChunkSize(total_samples, strategy)
    \/ \E req \in ReqIds : Allocate(req)
    \/ Report
    \/ \E raises \in BOOLEAN : MonitorIteration(raises)

Spec == Init /\ [][Next]_vars

(***************************************************************************)
(* The same manager with its two threads interleaved: the caller's thread  *)
(* and the monitor thread started by __init__ both run                     *)
(* get_current_resources, statement by statement, on the one               *)
(* self.history["resource_usage"] list.  The code takes no lock.           *)
(***************************************************************************)
At(t, label) == pc[t] = label

Goto(t, label) == pc' = [pc EXCEPT ![t] = label]

SharedQuiet == UNCHANGED <<config_file, history_file, host, manager, config, doc, pred>>

\* The caller's thread runs calculate_optimal_chunk_size (allocate_resources
\* starts with the same get_current_resources) with these arguments.
ThreadTotalSamples == {10000}
ThreadStrategies == {"balanced"}

\* The interleaved runs start from a directory without persisted documents
\* and see the host either answering every reading or failing its CPU reading.
ThreadHostAnswers ==
    { [fault |-> f, reading |-> AmpleReading] : f \in {"none", "cpu"} }

InitThreads ==
    /\ Init
    /\ config_file.kind = "absent"
    /\ history_file.kind = "absent"
    /\ host \in ThreadHostAnswers

CallerCallsChunkSize(total_samples, strategy) ==
    /\ Up /\ At("caller", "idle")
    /\ call' = [NoCall EXCEPT !.op = "calculate_optimal_chunk_size",
                              !.total_samples = total_samples, !.strategy = strategy]
    /\ resources' = NoResources
    /\ outcome' = NoOutcome
    /\ Goto("caller", "read")
    /\ UNCHANGED <<history, snap_seq, frame>>
    /\ SharedQuiet

\* subprocess.run(['bqueues', '-w'], ...) is called without a timeout: while
\* the queueing system does not answer, the call does not return.
bqueues_blocks(answer) == answer.fault = "lsf_hangs"

\* The readings and the resources dict (the try block up to the append).
ReadStep(t) ==
    /\ Up /\ At(t, "read")
    /\ ~bqueues_blocks(host)
    /\ IF HostReadingRaises(host)
       THEN /\ frame' = [frame EXCEPT ![t] = EmptyFrame]
            /\ Goto(t, "return")
            /\ UNCHANGED snap_seq
       ELSE /\ frame' = [frame EXCEPT ![t] = [resources |-> Snapshot(snap_seq, host),
                                              sliced |-> <<>>]]
            /\ snap_seq' = NextStamp(snap_seq)
            /\ Goto(t, "append")
    /\ UNCHANGED <<history, call, resources, outcome>>
    /\ SharedQuiet

\* self.history["resource_usage"].append(resources)
AppendStep(t) ==
    /\ At(t, "append")
    /\ IF history.kind # "dict"
       THEN /\ frame' = [frame EXCEPT ![t] = EmptyFrame]
            /\ Goto(t, "return")
            /\ UNCHANGED history
       ELSE /\ history' = [history EXCEPT
                              !.resource_usage = Append(@, frame[t].resources.timestamp)]
            /\ Goto(t, "check")
            /\ UNCHANGED frame
    /\ UNCHANGED <<snap_seq, call, resources, outcome>>
    /\ SharedQuiet

\* if len(self.history["resource_usage"]) > 1000:
CheckStep(t) ==
    /\ At(t, "check")
    /\ Goto(t, IF Len(history.resource_usage) > HistoryCap THEN "slice" ELSE "return")
    /\ UNCHANGED <<history, snap_seq, call, resources, outcome, frame>>
    /\ SharedQuiet

\* the right-hand side self.history["resource_usage"][-1000:]
SliceStep(t) ==
    /\ At(t, "slice")
    /\ frame' = [frame EXCEPT ![t].sliced = LastN(history.resource_usage, HistoryCap)]
    /\ Goto(t, "store")
    /\ UNCHANGED <<history, snap_seq, call, resources, outcome>>
    /\ SharedQuiet

\* self.history["resource_usage"] = <the slice>
StoreStep(t) ==
    /\ At(t, "store")
    /\ history' = [history EXCEPT !.resource_usage = frame[t].sliced]
    /\ frame' = [frame EXCEPT ![t].sliced = <<>>]
    /\ Goto(t, "return")
    /\ UNCHANGED <<snap_seq, call, resources, outcome>>
    /\ SharedQuiet

\* The rest of calculate_optimal_chunk_size once its sample returned.
CallerReturns ==
    /\ At("caller", "return")
    /\ resources' = frame["caller"].resources
    /\ frame' = [frame EXCEPT !["caller"] = EmptyFrame]
    /\ Goto("caller", "idle")
    /\ outcome' = [NoOutcome EXCEPT
                      !.status = "ok",
                      !.chunk = calculate_optimal_chunk_size(
                                    config, history, resources',
                                    call.total_samples, call.strategy)]
    /\ UNCHANGED <<history, snap_seq, call>>
    /\ SharedQuiet

MonitorQuiet == UNCHANGED <<history, snap_seq, call, resources, outcome>>

\* if current_resources:
MonitorReturns ==
    /\ At("monitor", "return")
    /\ Goto("monitor", IF frame["monitor"].resources.ok THEN "alerts" ELSE "sleep")
    /\ frame' = [frame EXCEPT !["monitor"] = EmptyFrame]
    /\ MonitorQuiet
    /\ SharedQuiet

\* self._check_alerts(current_resources), which may raise
MonitorAlerts(raises) ==
    /\ At("monitor", "alerts")
    /\ Goto("monitor", IF raises THEN "backoff" ELSE "sleep")
    /\ UNCHANGED frame
    /\ MonitorQuiet
    /\ SharedQuiet

\* time.sleep(update_interval_seconds); reading the interval may raise
MonitorSleep(raises) ==
    /\ At("monitor", "sleep")
    /\ Goto("monitor", IF raises THEN "backoff" ELSE "read")
    /\ UNCHANGED frame
    /\ MonitorQuiet
    /\ SharedQuiet

\* A loop that gives up after the first caught exception.
AfterBackoff_Exits == "exit"

\* except Exception: time.sleep(60), then the next turn of while True
AfterBackoff == "read"

MonitorBackoff ==
    /\ At("monitor", "backoff")
    /\ Goto("monitor", AfterBackoff)
    /\ UNCHANGED frame
    /\ MonitorQuiet
    /\ SharedQuiet

MonitorStep ==
    \/ ReadStep("monitor")
    \/ AppendStep("monitor")
    \/ CheckStep("monitor")
    \/ SliceStep("monitor")
    \/ StoreStep("monitor")
    \/ MonitorReturns
    \/ \E raises \in BOOLEAN : MonitorAlerts(raises)
    \/ \E raises \in BOOLEAN : MonitorSleep(raises)
    \/ MonitorBackoff

CallerStep ==
    \/ \E total_samples \in ThreadTotalSamples, strategy \in ThreadStrategies :
            CallerCallsChunkSize(total_samples, strategy)
    \/ ReadStep("caller")
    \/ AppendStep("caller")
    \/ CheckStep("caller")
    \/ SliceStep("caller")
    \/ StoreStep("caller")
    \/ CallerReturns

\* The load on the host changes while the threads run.
HostChangesT(answer) ==
    /\ answer # host
    /\ host' = answer
    /\ UNCHANGED <<config_file, history_file, manager, config, history, snap_seq,
                   call, resources, outcome, pc, frame>>
    /\ Aside

NextThreads ==
    \/ Construct
    \/ \E answer \in ThreadHostAnswers : HostChangesT(answer)
    \/ CallerStep
    \/ MonitorStep

SpecThreads == InitThreads /\ [][NextThreads]_vars

\* The scheduler runs the monitor thread again and again, and its sleeps end.
SpecThreadsFair == SpecThreads /\ WF_vars(MonitorStep)

(***************************************************************************)
(* The monitor thread on a host whose queueing system may stop answering.  *)
(***************************************************************************)
UnresponsiveQueue == [fault |-> "lsf_hangs", reading |-> AmpleReading]

QueueHostAnswers == ThreadHostAnswers \cup {UnresponsiveQueue}

InitQueue ==
    /\ Init
    /\ config_file.kind = "absent"
    /\ history_file.kind = "absent"
    /\ host \in QueueHostAnswers

NextQueue ==
    \/ Construct
    \/ \E answer \in QueueHostAnswers : HostChangesT(answer)
    \/ MonitorStep

SpecQueue == InitQueue /\ [][NextQueue]_vars

SpecQueueFair == SpecQueue /\ WF_vars(MonitorStep)

(***************************************************************************)
(* _merge_config on whole documents.  A JSON value is a node: a leaf with  *)
(* a value, or an object with a map from keys to nodes.  The queue-table   *)
(* merge above is this recursion on the "queues" object.                   *)
(***************************************************************************)
NoEntries == [k \in {} |-> 0]

Leaf(value) == [leaf |-> TRUE, v |-> value, d |-> NoEntries]

Object(entries) == [leaf |-> FALSE, v |-> 0, d |-> entries]

\* The "monitoring" section of default_config, the storage threshold in
\* hundredths.
DefaultThresholds ==
    [k \in {"storage_usage", "queue_wait_time"} |->
        IF k = "storage_usage" THEN Leaf(95) ELSE Leaf(24)]

DefaultMonitoring ==
    [k \in {"update_interval_seconds", "alert_thresholds"} |->
        IF k = "update_interval_seconds" THEN Leaf(30) ELSE Object(DefaultThresholds)]

DefaultDocument == [k \in {"monitoring"} |-> Object(DefaultMonitoring)]

\* A value an operator wrote into the persisted document; no default has it.
PersistedLeaf == Leaf(7)

\* Every map from a subset of keys to the nodes Allowed gives for each key.
MapsOver(keys, Allowed(_)) ==
    UNION { { f \in [S -> UNION { Allowed(k) : k \in S }] :
                  \A k \in S : f[k] \in Allowed(k) } : S \in SUBSET keys }

\* The persisted documents: any subset of the default keys and of one key
\* the defaults do not know at each level; a key holds an operator's value,
\* or, where the default is an object, an object or a value that is none.
ThresholdDocuments ==
    MapsOver({"storage_usage", "queue_wait_time", "site_key"},
             LAMBDA k : {PersistedLeaf})

MonitoringDocuments ==
    MapsOver({"update_interval_seconds", "alert_thresholds", "site_key"},
             LAMBDA k : IF k = "alert_thresholds"
                        THEN {PersistedLeaf} \cup { Object(t) : t \in ThresholdDocuments }
                        ELSE {PersistedLeaf})

PersistedDocuments ==
    MapsOver({"monitoring", "site_key"},
             LAMBDA k : IF k = "monitoring"
                        THEN {PersistedLeaf} \cup { Object(m) : m \in MonitoringDocuments }
                        ELSE {PersistedLeaf})

\* A node that stands where the default would have gone but holds nothing.
MissingKeyValue_Blank(default, key) == Leaf(0)

\* current[key] = value, for a key of the defaults that current lacks
MissingKeyValue(default, key) == default[key]

\* _merge_config(default, current), as the value of current afterwards.
RECURSIVE _merge_config_document(_, _)
_merge_config_document(default, current) ==
    [key \in DOMAIN default \cup DOMAIN current |->
        IF key \notin DOMAIN current THEN MissingKeyValue(default, key)
        ELSE IF key \in DOMAIN default /\ ~default[key].leaf /\ ~current[key].leaf
             THEN Object(_merge_config_document(default[key].d, current[key].d))
             ELSE current[key]]

\* json.load gave the document; load_config merges the defaults into it.
MergeDocument ==
    /\ doc.op = "loaded"
    /\ doc' = [doc EXCEPT !.op = "merged",
                          !.current = _merge_config_document(DefaultDocument, doc.current)]
    /\ UNCHANGED <<config_file, history_file, host, manager, config, history, snap_seq,
                   call, resources, outcome, pc, frame, pred>>

\* The document load_config saved is loaded and merged by the next run.
MergeAgain ==
    /\ doc.op = "merged"
    /\ doc' = [doc EXCEPT !.op = "merged_again",
                          !.before = doc.current,
                          !.current = _merge_config_document(DefaultDocument, doc.current)]
    /\ UNCHANGED <<config_file, history_file, host, manager, config, history, snap_seq,
                   call, resources, outcome, pc, frame, pred>>

\* The manager's own state while a document or a predictor is exercised.
ManagerAside ==
    /\ config_file \in { f \in ConfigFiles : f.kind = "absent" }
    /\ history_file \in { f \in HistoryFiles : f.kind = "absent" }
    /\ host = [fault |-> "none", reading |-> AmpleReading]
    /\ manager = "none"
    /\ config = default_config
    /\ history = EmptyHistory
    /\ snap_seq = 0
    /\ call = NoCall
    /\ resources = NoResources
    /\ outcome = NoOutcome
    /\ pc = [t \in Threads |-> "idle"]
    /\ frame = [t \in Threads |-> EmptyFrame]

InitMerge ==
    /\ ManagerAside
    /\ pred = NoPred
    /\ doc \in { [op |-> "loaded", persisted |-> d, current |-> d, before |-> d] :
                      d \in PersistedDocuments }

NextMerge == MergeDocument \/ MergeAgain

SpecMerge == InitMerge /\ [][NextMerge]_vars

(***************************************************************************)
(* src/scripts/advanced_features.py: StorageFailurePredictor and           *)
(* ResourceExhaustionPredictor.                                            *)
(*                                                                         *)
(* Fixed-point conventions:                                                *)
(*   a usage fraction and a growth rate per hour in thousandths            *)
(*       (0.996 -> 996, 0.05 -> 50); a usage_percent in tenths of a        *)
(*       percent, so usage_percent / 100 is the same number as a fraction; *)
(*   a probability in hundredths (0.7 -> 70);                              *)
(*   a time in thousandths of an hour (0.1 -> 100), or float('inf').       *)
(*                                                                         *)
(* An argument is whatever Python value the caller passes: a number, a     *)
(* string that float() and int() parse, any other string, None, a list,    *)
(* or float('inf').                                                        *)
(***************************************************************************)
Number(n) == [type |-> "number", n |-> n]

NumericString(n) == [type |-> "numeric_string", n |-> n]

Text == [type |-> "text", n |-> 0]

None == [type |-> "none", n |-> 0]

List == [type |-> "list", n |-> 0]

Infinity == [type |-> "infinity", n |-> 0]

\* A float that holds a whole number, such as 50.0.
Float(n) == [type |-> "float", n |-> n]

Malformed == {Text, None, List, Infinity}

\* A float: finite with value n, or inf.
Finite(n) == [inf |-> FALSE, n |-> n]

Inf == [inf |-> TRUE, n |-> 0]

\* if isinstance(x, str): x = float(x) / elif not isinstance(x, (int, float)):
\* x = default, with the ValueError of float() caught by the enclosing try,
\* whose handler assigns on_error.
ToFloat(value, default, on_error) ==
    CASE value.type \in {"number", "numeric_string", "float"} -> Finite(value.n)
      [] value.type = "infinity" -> Inf
      [] value.type = "text" -> Finite(on_error)
      [] OTHER -> Finite(default)

\* max(lo, min(hi, x))
Clamp(x, lo, hi) == IF x.inf THEN hi ELSE Max2(lo, Min2(hi, x.n))

\* StorageFailurePredictor.failure_thresholds
usage_critical == 950
usage_warning == 900
growth_rate_critical == 100
io_error_threshold == 5

\* What iostat reports to _get_io_error_rate.
IoErrorRates == {0, 6}

_calculate_failure_probability(usage, growth_rate, io_errors) ==
    LET usage_term == IF usage > usage_critical THEN 70
                      ELSE IF usage > usage_warning THEN 30 ELSE 0
        growth_term == IF growth_rate.inf \/ growth_rate.n > growth_rate_critical
                       THEN 40 ELSE 0
        io_term == IF io_errors > io_error_threshold THEN 20 ELSE 0
    IN  Min2(usage_term + growth_term + io_term, 100)

\* The time is returned as it was computed, below zero past 98% usage.
NonNegativeTime_Unclamped(time) == time

\* max(0, time_to_failure)
NonNegativeTime(time) == Max2(0, time)

\* (remaining_capacity - safety_margin) / growth_rate, floored to a
\* thousandth of an hour; a division by inf gives zero.
_estimate_time_to_failure(usage, growth_rate) ==
    IF ~growth_rate.inf /\ growth_rate.n <= 0 THEN Inf
    ELSE IF growth_rate.inf THEN Finite(NonNegativeTime(0))
    ELSE Finite(NonNegativeTime(((1000 - usage - 20) * 1000) \div growth_rate.n))

\* StorageFailurePredictor._get_risk_level
_get_risk_level(failure_prob) ==
    IF failure_prob > 80 THEN "CRITICAL"
    ELSE IF failure_prob > 50 THEN "HIGH"
    ELSE IF failure_prob > 20 THEN "MODERATE"
    ELSE "LOW"

\* predict_storage_failure: the keys of the dict it returns that the
\* properties read.
predict_storage_failure(current_usage, growth_rate, io_errors) ==
    LET usage == Clamp(ToFloat(current_usage, 0, 0), 0, 1000)
        coerced == ToFloat(growth_rate, 0, 0)
        growth == IF coerced.inf THEN Inf ELSE Finite(Max2(0, coerced.n))
        failure_probability == _calculate_failure_probability(usage, growth, io_errors)
    IN  [keys |-> {"failure_probability", "time_to_failure_hours", "risk_level"},
         failure_probability |-> failure_probability,
         time_to_failure_hours |-> _estimate_time_to_failure(usage, growth),
         risk_level |-> _get_risk_level(failure_probability)]

(***************************************************************************)
(* ResourceExhaustionPredictor: CPU, memory, storage                       *)
(***************************************************************************)
\* ResourceExhaustionPredictor.exhaustion_thresholds
cpu_critical == 950
memory_critical == 950
storage_critical == 950
queue_critical == 90

\* A staircase whose top level starts at a probability of 0.8.
ExhaustionRiskLevel_From80(probability) ==
    IF probability >= 80 THEN "CRITICAL"
    ELSE IF probability > 50 THEN "HIGH"
    ELSE IF probability > 20 THEN "MODERATE"
    ELSE "LOW"

\* ResourceExhaustionPredictor._get_risk_level
ExhaustionRiskLevel(probability) ==
    IF probability > 80 THEN "CRITICAL"
    ELSE IF probability > 50 THEN "HIGH"
    ELSE IF probability > 20 THEN "MODERATE"
    ELSE "LOW"

\* A section of current_resources: None, a value that is no dict, or a dict
\* with the two entries the predictor reads (a missing entry is read as its
\* .get default and is the same as passing that default).
NoSection == [shape |-> "none", usage_percent |-> None, available |-> None]

NotADict == [shape |-> "not_dict", usage_percent |-> None, available |-> None]

Section(usage_percent, available) ==
    [shape |-> "dict", usage_percent |-> usage_percent, available |-> available]

\* max(0, min(100, usage_percent)) / 100
UsageOf(usage_percent) == Clamp(ToFloat(usage_percent, 0, 0), 0, 1000)

\* max(0, float(x))
AtLeastZero(x) == IF x.inf THEN Inf ELSE Finite(Max2(0, x.n))

\* The dict a per-resource predictor returns on its error paths.
ErrorPrediction ==
    [keys |-> {"error", "exhaustion_probability", "time_to_exhaustion_hours",
               "current_usage", "available", "risk_level"},
     exhaustion_probability |-> 0, time_to_exhaustion_hours |-> 0,
     current_usage |-> 0, available |-> Finite(0), risk_level |-> "UNKNOWN"]

Prediction(exhaustion_prob, time_to_exhaustion, usage, available) ==
    [keys |-> {"exhaustion_probability", "time_to_exhaustion_hours",
               "current_usage", "available", "risk_level"},
     exhaustion_probability |-> exhaustion_prob,
     time_to_exhaustion_hours |-> time_to_exhaustion,
     current_usage |-> usage, available |-> available,
     risk_level |-> ExhaustionRiskLevel(exhaustion_prob)]

_estimate_cpu_exhaustion_time(usage, available) ==
    IF usage >= 950 THEN 100
    ELSE IF available <= 0 THEN 500
    ELSE Max2(100, (950 - usage) * 24)

_estimate_memory_exhaustion_time(usage, available_gb) ==
    IF usage >= 950 THEN 100
    ELSE Max2(100, (950 - usage) * 48)

_estimate_storage_exhaustion_time(usage, free_gb) ==
    IF usage >= 950 THEN 100
    ELSE Max2(100, (950 - usage) * 168)

\* The probability of the CPU staircase one step too low above 0.8 usage.
CpuExhaustionProbability_Late(usage) ==
    IF usage > cpu_critical THEN 40
    ELSE IF usage > 800 THEN 10
    ELSE 0

CpuExhaustionProbability(usage) ==
    IF usage > cpu_critical THEN 80
    ELSE IF usage > 800 THEN 40
    ELSE IF usage > 600 THEN 10
    ELSE 0

MemoryExhaustionProbability(usage) ==
    IF usage > memory_critical THEN 90
    ELSE IF usage > 800 THEN 50
    ELSE IF usage > 600 THEN 20
    ELSE 0

StorageExhaustionProbability(usage) ==
    IF usage > storage_critical THEN 95
    ELSE IF usage > 900 THEN 70
    ELSE IF usage > 800 THEN 30
    ELSE 0

\* available = max(0, int(available)): int() of a string that is no number
\* raises ValueError, caught (available = 1); int(float('inf')) raises
\* OverflowError, which only the outer handler catches.
_predict_cpu_exhaustion(cpu_info) ==
    IF cpu_info.shape # "dict" THEN ErrorPrediction
    ELSE IF cpu_info.available.type = "infinity" THEN ErrorPrediction
    ELSE LET usage == UsageOf(cpu_info.usage_percent)
             available == Max2(0, ToFloat(cpu_info.available, 1, 1).n)
         IN  Prediction(CpuExhaustionProbability(usage),
                        _estimate_cpu_exhaustion_time(usage, available),
                        usage, Finite(available))

\* available_gb = max(0, float(available_gb)); float('inf') stays inf.
_predict_memory_exhaustion(memory_info) ==
    IF memory_info.shape # "dict" THEN ErrorPrediction
    ELSE LET usage == UsageOf(memory_info.usage_percent)
             available_gb == AtLeastZero(ToFloat(memory_info.available, 1, 1))
         IN  Prediction(MemoryExhaustionProbability(usage),
                        _estimate_memory_exhaustion_time(usage, available_gb),
                        usage, available_gb)

_predict_storage_exhaustion(storage_info) ==
    IF storage_info.shape # "dict" THEN ErrorPrediction
    ELSE LET usage == UsageOf(storage_info.usage_percent)
             free_gb == AtLeastZero(ToFloat(storage_info.available, 1, 1))
         IN  Prediction(StorageExhaustionProbability(usage),
                        _estimate_storage_exhaustion_time(usage, free_gb),
                        usage, free_gb)

(***************************************************************************)
(* ResourceExhaustionPredictor: queues, the whole prediction               *)
(***************************************************************************)
\* The data of one queue: None or no dict, or a dict with pending, running
\* and max_jobs.
InvalidQueueData ==
    [shape |-> "not_dict", pending |-> None, running |-> None, max_jobs |-> None]

QueueData(pending, running, max_jobs) ==
    [shape |-> "dict", pending |-> pending, running |-> running, max_jobs |-> max_jobs]

\* int(x) if isinstance(x, (int, str)) else default.  A float is neither.
IntOrDefault(value, default) ==
    IF value.type \in {"number", "numeric_string"} THEN value.n ELSE default

\* int() of a string that is no number raises ValueError: the handler sets
\* pending = running = 0 and max_jobs = 100.
QueueValuesRaise(queue_data) ==
    \E value \in {queue_data.pending, queue_data.running, queue_data.max_jobs} :
        value.type = "text"

\* The queue staircase with its first step at half of max_jobs.
QueueExhaustionProbability_Early(running, pending, max_jobs) ==
    IF (running + pending) * 100 > queue_critical * max_jobs THEN 80
    ELSE IF (running + pending) * 100 > 80 * max_jobs THEN 40
    ELSE IF (running + pending) * 100 >= 50 * max_jobs THEN 30
    ELSE 0

QueueExhaustionProbability(running, pending, max_jobs) ==
    IF (running + pending) * 100 > queue_critical * max_jobs THEN 80
    ELSE IF (running + pending) * 100 > 80 * max_jobs THEN 40
    ELSE IF (running + pending) * 100 > 60 * max_jobs THEN 10
    ELSE 0

\* The entry of one queue in the dict _predict_queue_exhaustion returns.
QueuePrediction(queue_data) ==
    IF queue_data.shape # "dict"
    THEN [keys |-> {"error"}, exhaustion_probability |-> 0, pending_jobs |-> 0,
          running_jobs |-> 0, max_jobs |-> 0, risk_level |-> "absent"]
    ELSE LET raises == QueueValuesRaise(queue_data)
             pending == Max2(0, IF raises THEN 0 ELSE IntOrDefault(queue_data.pending, 0))
             running == Max2(0, IF raises THEN 0 ELSE IntOrDefault(queue_data.running, 0))
             max_jobs ==
                 Max2(1, IF raises THEN 100 ELSE IntOrDefault(queue_data.max_jobs, 100))
             exhaustion_prob == QueueExhaustionProbability(running, pending, max_jobs)
         IN  [keys |-> {"exhaustion_probability", "utilization", "pending_jobs",
                        "running_jobs", "max_jobs", "risk_level"},
              exhaustion_probability |-> exhaustion_prob,
              pending_jobs |-> pending, running_jobs |-> running, max_jobs |-> max_jobs,
              risk_level |-> ExhaustionRiskLevel(exhaustion_prob)]

\* queue_info: None or no dict, or a dict from queue names to queue data.
NoQueueInfo == [shape |-> "none", queues |-> NoEntries]

QueueInfoNotADict == [shape |-> "not_dict", queues |-> NoEntries]

QueueInfo(queues) == [shape |-> "dict", queues |-> queues]

\* _predict_queue_exhaustion: {"error": ...} for a queue_info that is no
\* dict, one entry per queue otherwise.
_predict_queue_exhaustion(queue_info) ==
    IF queue_info.shape # "dict"
    THEN [keys |-> {"error"}, queues |-> NoEntries]
    ELSE [keys |-> DOMAIN queue_info.queues,
          queues |-> [queue_name \in DOMAIN queue_info.queues |->
                         QueuePrediction(queue_info.queues[queue_name])]]

\* {"error": "... data not available"}
NotAvailable ==
    [keys |-> {"error"}, exhaustion_probability |-> 0, time_to_exhaustion_hours |-> 0,
     current_usage |-> 0, available |-> Finite(0), risk_level |-> "absent"]

risk_scores(risk) ==
    CASE risk = "LOW" -> 1
      [] risk = "MODERATE" -> 2
      [] risk = "HIGH" -> 3
      [] risk = "CRITICAL" -> 4
      [] risk = "UNKNOWN" -> 0
      [] OTHER -> 1

\* The first key of risk_scores, in its order of insertion, with the score.
RiskOfScore(score) ==
    CASE score = 1 -> "LOW"
      [] score = 2 -> "MODERATE"
      [] score = 3 -> "HIGH"
      [] score = 4 -> "CRITICAL"
      [] OTHER -> "UNKNOWN"

SetMax(S) == CHOOSE x \in S : \A y \in S : y <= x

\* _assess_overall_risk: the risk levels collected from the predictions
\* without an "error" key (for the queues: from every queue entry that has a
\* risk_level), and the level with the highest score among them.  The dict
\* of the queues is tested like the others: with a queue named "error" it is
\* skipped, and with a queue named "risk_level" the entry of that queue is
\* collected as if it were a level, risk_scores.get raises on it and the
\* handler answers UNKNOWN.
_assess_overall_risk(predictions) ==
    LET resource_risks ==
            { predictions[r].risk_level :
                  r \in { r \in {"cpu", "memory", "storage"} :
                              "error" \notin predictions[r].keys } }
        queue_risks ==
            IF "error" \in predictions.queues.keys THEN {}
            ELSE { predictions.queues.queues[q].risk_level :
                       q \in { q \in DOMAIN predictions.queues.queues :
                                   "risk_level" \in predictions.queues.queues[q].keys } }
        risks == resource_risks \cup queue_risks
    IN  IF "error" \notin predictions.queues.keys
               /\ "risk_level" \in predictions.queues.keys
        THEN "UNKNOWN"
        ELSE IF risks = {} THEN "UNKNOWN"
        ELSE RiskOfScore(SetMax({ risk_scores(risk) : risk \in risks }))

\* current_resources: None, a value that is no dict, or a dict in which
\* each section is missing (or None), or holds some value.
NoCurrentResources ==
    [shape |-> "none", has |-> {}, cpu |-> NoSection, memory |-> NoSection,
     storage |-> NoSection, lsf |-> NoQueueInfo]

CurrentResourcesNotADict == [NoCurrentResources EXCEPT !.shape = "not_dict"]

CurrentResources(has, cpu, memory, storage, lsf) ==
    [shape |-> "dict", has |-> has, cpu |-> cpu, memory |-> memory,
     storage |-> storage, lsf |-> lsf]

predict_resource_exhaustion(current_resources) ==
    IF current_resources.shape # "dict"
    THEN [keys |-> {"error", "predictions", "overall_risk", "recommendations",
                    "optimization_suggestions"},
          predictions |-> NoEntries, overall_risk_level |-> "UNKNOWN"]
    ELSE LET predictions ==
                 [cpu |-> IF "cpu" \in current_resources.has
                          THEN _predict_cpu_exhaustion(current_resources.cpu)
                          ELSE NotAvailable,
                  memory |-> IF "memory" \in current_resources.has
                             THEN _predict_memory_exhaustion(current_resources.memory)
                             ELSE NotAvailable,
                  storage |-> IF "storage" \in current_resources.has
                              THEN _predict_storage_exhaustion(current_resources.storage)
                              ELSE NotAvailable,
                  queues |-> IF "lsf" \in current_resources.has
                             THEN _predict_queue_exhaustion(current_resources.lsf)
                             ELSE [keys |-> {"error"}, queues |-> NoEntries]]
         IN  [keys |-> {"predictions", "overall_risk", "recommendations",
                        "optimization_suggestions"},
              predictions |-> predictions,
              overall_risk_level |-> _assess_overall_risk(predictions)]

(***************************************************************************)
(* The predictors called with well-formed and malformed arguments.         *)
(***************************************************************************)
UsageArguments ==
    { Number(n) : n \in {-100, 0, 500, 900, 901, 950, 951, 980, 981, 996, 1000, 1200} }
    \cup {NumericString(996)} \cup Malformed

GrowthArguments ==
    { Number(n) : n \in {-50, 0, 1, 50, 100, 101, 500} }
    \cup {NumericString(50)} \cup Malformed

UsagePercentArguments ==
    { Number(n) : n \in {-50, 0, 44, 550, 600, 601, 800, 801, 950, 951, 996, 1000, 1500} }
    \cup {NumericString(550)} \cup Malformed

AvailableArguments ==
    { Number(n) : n \in {-1, 0, 57} } \cup {NumericString(57)} \cup Malformed

Sections ==
    {NoSection, NotADict}
    \cup { Section(u, a) : u \in UsagePercentArguments, a \in AvailableArguments }

PendingArguments ==
    { Number(n) : n \in {-5, 0, 50, 60, 61, 80, 81, 90, 91, 150} }
    \cup {NumericString(50), Float(50), Text, None}

QueueDatas ==
    {InvalidQueueData}
    \cup { QueueData(p, r, m) : p \in PendingArguments,
                                r \in {Number(0), Number(30)},
                                m \in {Number(100), Number(0), None} }

\* The loads of the queues when several queues are reported.
QueueLoads ==
    { QueueData(Number(50), Number(0), Number(100)),
      QueueData(Number(0), Number(30), Number(100)),
      QueueData(Number(85), Number(0), Number(100)) }

ClusterQueueNames == {"normal", "hiprio", "long", "gpu", "interactive"}

QueueInfos ==
    {NoQueueInfo, QueueInfoNotADict}
    \cup { QueueInfo([queue_name \in {"normal"} |-> d]) : d \in QueueDatas }
    \cup { QueueInfo(f) : f \in [ClusterQueueNames -> QueueLoads] }

\* A cluster with an idle queue "normal" and a busy queue whose name is a
\* key the predictor's own dicts use.
OddlyNamedQueues ==
    { QueueInfo([queue_name \in {"normal", odd} |->
                    IF queue_name = "normal"
                    THEN QueueData(Number(0), Number(0), Number(100))
                    ELSE QueueData(Number(95), Number(0), Number(100))]) :
          odd \in {"error", "risk_level"} }

\* current_resources with any of its sections missing; the full one is the
\* sample of main().
ResourceDicts ==
    { CurrentResources(has, cpu, Section(Number(44), Number(1925)),
                       Section(Number(996), Number(2061)), lsf) :
          has \in SUBSET {"cpu", "memory", "storage", "lsf"},
          cpu \in {Section(Number(550), Number(57)), Section(Number(990), Number(0)),
                   NotADict},
          lsf \in {QueueInfo([queue_name \in {"normal"} |->
                                 QueueData(Number(50), Number(0), Number(100))]),
                   QueueInfoNotADict} \cup OddlyNamedQueues }

\* current_resources that hold the queue data only, of five queues.
QueueOnlyResources ==
    { CurrentResources({"lsf"}, NoSection, NoSection, NoSection, QueueInfo(f)) :
          f \in [ClusterQueueNames -> QueueLoads] }

CurrentResourcesArguments ==
    {NoCurrentResources, CurrentResourcesNotADict} \cup ResourceDicts
        \cup QueueOnlyResources

PredQuiet ==
    UNCHANGED <<config_file, history_file, host, manager, config, history, snap_seq,
                call, resources, outcome, pc, frame, doc>>

PredictStorageFailure(current_usage, growth_rate, io_errors) ==
    /\ pred.op = "none"
    /\ pred' = [op |-> "predict_storage_failure",
                current_usage |-> current_usage, growth_rate |-> growth_rate,
                io_errors |-> io_errors,
                result |-> predict_storage_failure(current_usage, growth_rate, io_errors)]
    /\ PredQuiet

PredictCpu(cpu_info) ==
    /\ pred.op = "none"
    /\ pred' = [op |-> "_predict_cpu_exhaustion", info |-> cpu_info,
                result |-> _predict_cpu_exhaustion(cpu_info)]
    /\ PredQuiet

PredictMemory(memory_info) ==
    /\ pred.op = "none"
    /\ pred' = [op |-> "_predict_memory_exhaustion", info |-> memory_info,
                result |-> _predict_memory_exhaustion(memory_info)]
    /\ PredQuiet

PredictStorage(storage_info) ==
    /\ pred.op = "none"
    /\ pred' = [op |-> "_predict_storage_exhaustion", info |-> storage_info,
                result |-> _predict_storage_exhaustion(storage_info)]
    /\ PredQuiet

PredictQueues(queue_info) ==
    /\ pred.op = "none"
    /\ pred' = [op |-> "_predict_queue_exhaustion", info |-> queue_info,
                result |-> _predict_queue_exhaustion(queue_info)]
    /\ PredQuiet

PredictResourceExhaustion(current_resources) ==
    /\ pred.op = "none"
    /\ pred' = [op |-> "predict_resource_exhaustion", info |-> current_resources,
                result |-> predict_resource_exhaustion(current_resources)]
    /\ PredQuiet

\* The caller has the result and the predictor is ready for the next call.
PredictorReturns ==
    /\ pred.op # "none"
    /\ pred' = NoPred
    /\ PredQuiet

InitPredict ==
    /\ ManagerAside
    /\ doc = NoDoc
    /\ pred = NoPred

NextPredict ==
    \/ \E current_usage \in UsageArguments, growth_rate \in GrowthArguments,
          io_errors \in IoErrorRates :
            PredictStorageFailure(current_usage, growth_rate, io_errors)
    \/ \E cpu_info \in Sections : PredictCpu(cpu_info)
    \/ \E memory_info \in Sections : PredictMemory(memory_info)
    \/ \E storage_info \in Sections : PredictStorage(storage_info)
    \/ \E queue_info \in QueueInfos : PredictQueues(queue_info)
    \/ \E current_resources \in CurrentResourcesArguments :
            PredictResourceExhaustion(current_resources)
    \/ PredictorReturns

SpecPredict == InitPredict /\ [][NextPredict]_vars

(***************************************************************************)
(* Properties                                                              *)
(***************************************************************************)

\* C1: every value calculate_optimal_chunk_size returns, for any strategy,
\* any telemetry outcome (a failed sample included) and any total >= 1, is
\* at least the minimum chunk size 100 and at most the strategy's
\* max_chunk_size.
C1_ChunkSizeWithinStrategyBounds ==
    (Up /\ history.kind = "dict" /\ call.op = "calculate_optimal_chunk_size") =>
        /\ outcome.chunk >= 100
        /\ outcome.chunk <= config.chunk_strategies[call.strategy].max_chunk_size

\* C2: every allocation allocate_resources returns, also after the
\* cost-ceiling pass, is within max_cpu_per_job, max_memory_per_job and
\* max_walltime_hours of the queue it names.
C2_AllocationWithinQueueCaps ==
    (Up /\ call.op = "allocate_resources" /\ outcome.status = "ok") =>
        LET queue_config == config.queues[outcome.allocation.queue]
        IN  /\ outcome.allocation.cpus <= queue_config.max_cpu_per_job
            /\ outcome.allocation.memory_gb <= queue_config.max_memory_per_job
            /\ outcome.allocation.walltime_hours <= queue_config.max_walltime_hours

\* C3: in every reachable state, the states between the statements of an
\* append included, each history holds at most the cap of entries.
C3_HistoriesWithinCap ==
    /\ Len(history.resource_usage) <= HistoryCap
    /\ Len(history.job_history) <= HistoryCap

\* new is old without some of its oldest entries, followed by at most one
\* appended entry.
KeepsNewest(old, new) ==
    \E k \in 0..Len(old) :
        LET kept == SubSeq(old, k + 1, Len(old))
        IN  \/ new = kept
            \/ /\ Len(new) = Len(kept) + 1
               /\ SubSeq(new, 1, Len(kept)) = kept

\* C4: under every interleaving of the monitor thread and the caller's
\* thread, a step takes from the telemetry history nothing but its oldest
\* entries: no appended snapshot is lost otherwise.
C4_AppendsSerialized ==
    [][KeepsNewest(history.resource_usage, history'.resource_usage)]_vars

\* C5: when no queue fits the requirement, allocate_resources fails with
\* NoFeasibleQueueError.
C5_NoFeasibleQueueError ==
    (Up /\ history.kind = "dict" /\ call.op = "allocate_resources"
        /\ get_available_queues(config, Requirements[call.req]) = <<>>) =>
        outcome.status = "NoFeasibleQueueError"

C7_SingleFaultStillSamples ==
    (Up /\ call.op = "get_current_resources" /\ history.kind = "dict"
        /\ host.fault # "none") =>
        /\ resources.ok
        /\ (resources.lsf = "empty") <=> (host.fault = "lsf")
        /\ (resources.network = "empty") <=> (host.fault = "network")

\* C8: get_current_resources and generate_advanced_report are pure reads:
\* they leave the telemetry history and the allocation history unchanged.
C8_SampleAndReportArePureReads ==
    [][(Sample \/ Report) => history' = history]_vars

\* C9: the histories survive a restart: the manager created again from the
\* same directory holds the records the previous one held (never more than
\* the cap), in the same order.
C9_HistorySurvivesRestart ==
    [][Restart => /\ history'.resource_usage = history.resource_usage
                  /\ history'.job_history = history.job_history]_vars

\* C10: whatever malformed content the configuration and history documents
\* hold, constructing the manager does not fail and the manager then works
\* on the built-in defaults (the default configuration, empty histories).
C10_MalformedDocumentsFallBack ==
    /\ manager # "crashed"
    /\ (Up /\ call.op = "__init__" /\ history_file.kind # "dict") => history = EmptyHistory

\* Key paths of a document: the keys from the root down to a node.
DocumentKeys ==
    {"monitoring", "update_interval_seconds", "alert_thresholds", "storage_usage",
     "queue_wait_time", "site_key"}

KeyPaths == UNION { [1..n -> DocumentKeys] : n \in 1..3 }

RECURSIVE HasPath(_, _)
HasPath(entries, path) ==
    /\ Head(path) \in DOMAIN entries
    /\ \/ Len(path) = 1
       \/ /\ ~entries[Head(path)].leaf
          /\ HasPath(entries[Head(path)].d, Tail(path))

RECURSIVE NodeAt(_, _)
NodeAt(entries, path) ==
    IF Len(path) = 1 THEN entries[Head(path)]
    ELSE NodeAt(entries[Head(path)].d, Tail(path))

\* The document holds a value that is no object on the way to the path.
Shadowed(entries, path) ==
    \E i \in 1..(Len(path) - 1) :
        /\ HasPath(entries, SubSeq(path, 1, i))
        /\ NodeAt(entries, SubSeq(path, 1, i)).leaf

PersistedPathsKept ==
    \A path \in KeyPaths :
        HasPath(doc.persisted, path) =>
            /\ HasPath(doc.current, path)
            /\ IF NodeAt(doc.persisted, path).leaf
               THEN NodeAt(doc.current, path) = NodeAt(doc.persisted, path)
               ELSE ~NodeAt(doc.current, path).leaf

\* C11: after the merge every key path of the persisted document keeps its
\* persisted value, every key path of the defaults that the document lacks
\* is present with its default value, and a second merge changes nothing.
C11_MergeKeepsPersistedAddsDefaults ==
    (doc.op \in {"merged", "merged_again"}) =>
        /\ PersistedPathsKept
        /\ \A path \in KeyPaths :
               (HasPath(DefaultDocument, path) /\ ~HasPath(doc.persisted, path)) =>
                   /\ HasPath(doc.current, path)
                   /\ NodeAt(doc.current, path) = NodeAt(DefaultDocument, path)
        /\ (doc.op = "merged_again") => doc.current = doc.before

\* C11 as the code has it: a default key path the document lacks is added
\* unless the document holds a value that is no object above it; that value
\* is kept and nothing is added beneath it.
C11_MergeAddsUnshadowedDefaults ==
    (doc.op \in {"merged", "merged_again"}) =>
        /\ PersistedPathsKept
        /\ \A path \in KeyPaths :
               (HasPath(DefaultDocument, path) /\ ~HasPath(doc.persisted, path)) =>
                   IF Shadowed(doc.persisted, path)
                   THEN ~HasPath(doc.current, path)
                   ELSE /\ HasPath(doc.current, path)
                        /\ NodeAt(doc.current, path) = NodeAt(DefaultDocument, path)
        /\ (doc.op = "merged_again") => doc.current = doc.before

\* A document with an unknown key and an operator's threshold, lacking the
\* other threshold and the update interval, was merged twice.
C11_Witness ==
    /\ doc.op = "merged_again"
    /\ HasPath(doc.persisted, <<"site_key">>)
    /\ HasPath(doc.persisted, <<"monitoring", "alert_thresholds", "storage_usage">>)
    /\ ~HasPath(doc.persisted, <<"monitoring", "alert_thresholds", "queue_wait_time">>)
    /\ ~HasPath(doc.persisted, <<"monitoring", "update_interval_seconds">>)
    /\ NodeAt(doc.current, <<"monitoring", "alert_thresholds", "storage_usage">>)
           = PersistedLeaf
    /\ NodeAt(doc.current, <<"monitoring", "alert_thresholds", "queue_wait_time">>)
           = Leaf(24)

NonNegativeTime_OK(time) == time.inf \/ time.n >= 0

\* C12: for a usage fraction in [0, 1] and a growth rate >= 0, the time to
\* failure of the storage failure predictor and the times to exhaustion of
\* the CPU, memory and storage estimators are never below zero.
C12_TimesNeverNegative ==
    /\ (/\ pred.op = "predict_storage_failure"
        /\ pred.current_usage.type = "number"
        /\ pred.current_usage.n \in 0..1000
        /\ pred.growth_rate.type = "number"
        /\ pred.growth_rate.n >= 0) =>
           NonNegativeTime_OK(pred.result.time_to_failure_hours)
    /\ (/\ pred.op \in {"_predict_cpu_exhaustion", "_predict_memory_exhaustion",
                        "_predict_storage_exhaustion"}
        /\ pred.info.shape = "dict"
        /\ pred.info.usage_percent.type = "number"
        /\ pred.info.usage_percent.n \in 0..1000) =>
           pred.result.time_to_exhaustion_hours >= 0

\* Usage 99.6% growing by 5% an hour: the remaining capacity is below the
\* safety margin and the time to failure is clamped to zero.
C12_Witness ==
    /\ pred.op = "predict_storage_failure"
    /\ pred.current_usage = Number(996)
    /\ pred.growth_rate = Number(50)
    /\ pred.result.time_to_failure_hours = Finite(0)

\* C13: whatever malformed argument predict_storage_failure,
\* predict_resource_exhaustion or a per-resource predictor (CPU, memory,
\* storage, queues) is given, the call returns and every per-resource result
\* it returns has a risk_level.
C13_EveryResultHasRiskLevel ==
    /\ (pred.op \in {"predict_storage_failure", "_predict_cpu_exhaustion",
                     "_predict_memory_exhaustion", "_predict_storage_exhaustion"}) =>
           "risk_level" \in pred.result.keys
    /\ (pred.op = "_predict_queue_exhaustion") =>
           /\ "error" \notin pred.result.keys
           /\ \A q \in DOMAIN pred.result.queues :
                  "risk_level" \in pred.result.queues[q].keys
    /\ (pred.op = "predict_resource_exhaustion" /\ pred.info.shape = "dict") =>
           \A r \in {"cpu", "memory", "storage"} :
               "risk_level" \in pred.result.predictions[r].keys

\* C14: when a chunk cannot be sized at all (no items, or no telemetry
\* sample), calculate_optimal_chunk_size returns exactly the minimum chunk
\* size, 100.
C14_UnsizableGivesMinimum ==
    (/\ Up
     /\ history.kind = "dict"
     /\ call.op = "calculate_optimal_chunk_size"
     /\ (call.total_samples = 0 \/ ~resources.ok)) =>
        /\ outcome.status = "ok"
        /\ outcome.chunk = 100

\* C16: 10000 items, storage and CPU that do not bind, the default queues,
\* no allocation recorded and strategy balanced give 1000, the strategy's
\* max_chunk_size.
C16_BalancedCapBinds ==
    (/\ Up
     /\ call.op = "calculate_optimal_chunk_size"
     /\ call.total_samples = 10000
     /\ call.strategy = "balanced"
     /\ config = default_config
     /\ host.fault = "none"
     /\ history.kind = "dict"
     /\ history.job_history = <<>>
     /\ resources.ok
     /\ resources.free_gb = AmpleReading.free_gb
     /\ resources.cpu_available = AmpleReading.cpu_available) =>
        outcome.chunk = 1000

C17_NearFullStorageIsCritical ==
    (/\ pred.op = "predict_storage_failure"
     /\ pred.current_usage = Number(996)
     /\ pred.growth_rate = Number(50)
     /\ pred.io_errors = 0) =>
        /\ pred.result.risk_level = "CRITICAL"
        /\ pred.result.failure_probability >= 90

\* The staircases of the claim C19, in hundredths, of a usage in thousandths.
C19_CpuStaircase(usage) ==
    CASE usage <= 600 -> 0
      [] usage > 600 /\ usage <= 800 -> 10
      [] usage > 800 /\ usage <= 950 -> 40
      [] usage > 950 -> 80

C19_MemoryStaircase(usage) ==
    CASE usage <= 600 -> 0
      [] usage > 600 /\ usage <= 800 -> 20
      [] usage > 800 /\ usage <= 950 -> 50
      [] usage > 950 -> 90

C19_UsagePoints == {0, 44, 550, 600, 601, 800, 801, 950, 951, 996, 1000}

\* C19: the CPU and the memory exhaustion probability are the staircase of
\* the clamped usage: 0 up to 0.6, 0.1 / 0.2 up to 0.8, 0.4 / 0.5 up to
\* 0.95, 0.8 / 0.9 above; 55% CPU usage with 57 cores available gives 0 and
\* LOW; the probability does not decrease as the usage grows.
C19_CpuMemoryStaircase ==
    /\ (pred.op = "_predict_cpu_exhaustion" /\ "error" \notin pred.result.keys) =>
           /\ pred.result.current_usage \in 0..1000
           /\ pred.result.exhaustion_probability =
                  C19_CpuStaircase(pred.result.current_usage)
           /\ (pred.info.usage_percent = Number(550)) =>
                  /\ pred.result.exhaustion_probability = 0
                  /\ pred.result.risk_level = "LOW"
    /\ (pred.op = "_predict_memory_exhaustion" /\ "error" \notin pred.result.keys) =>
           /\ pred.result.current_usage \in 0..1000
           /\ pred.result.exhaustion_probability =
                  C19_MemoryStaircase(pred.result.current_usage)
    /\ (pred.op \in {"_predict_cpu_exhaustion", "_predict_memory_exhaustion"}) =>
           \A u1, u2 \in C19_UsagePoints :
               (u1 <= u2) =>
                   /\ CpuExhaustionProbability(u1) <= CpuExhaustionProbability(u2)
                   /\ MemoryExhaustionProbability(u1) <= MemoryExhaustionProbability(u2)

\* The CPU predictor was given 55% usage and 57 available cores.
C19_Witness ==
    /\ pred.op = "_predict_cpu_exhaustion"
    /\ pred.info = Section(Number(550), Number(57))
    /\ pred.result.current_usage = 550
    /\ pred.result.available = Finite(57)
    /\ pred.result.exhaustion_probability = 0
    /\ pred.result.risk_level = "LOW"

\* The queue staircase of the claim C20 in hundredths.
C20_QueueStaircase(jobs, max_jobs) ==
    CASE jobs * 10 > 9 * max_jobs -> 80
      [] jobs * 10 <= 9 * max_jobs /\ jobs * 10 > 8 * max_jobs -> 40
      [] jobs * 10 <= 8 * max_jobs /\ jobs * 10 > 6 * max_jobs -> 10
      [] OTHER -> 0

C20_WellFormed(queue_data) ==
    /\ queue_data.shape = "dict"
    /\ queue_data.pending.type = "number" /\ queue_data.pending.n >= 0
    /\ queue_data.running.type = "number" /\ queue_data.running.n >= 0
    /\ queue_data.max_jobs.type = "number" /\ queue_data.max_jobs.n >= 1

C20_HalfFull == QueueData(Number(50), Number(0), Number(100))

\* C20: the exhaustion probability of a queue is the staircase of
\* (running + pending) / max_jobs: 0.8 above 0.9, 0.4 above 0.8, 0.1 above
\* 0.6, otherwise 0; a queue with max_jobs 100, 50 pending and 0 running has
\* probability 0 and risk LOW, and five such queues give the overall risk
\* LOW.
C20_QueueStaircaseAndOverallRisk ==
    /\ (pred.op = "_predict_queue_exhaustion" /\ pred.info.shape = "dict") =>
           \A q \in DOMAIN pred.info.queues :
               C20_WellFormed(pred.info.queues[q]) =>
                   LET data == pred.info.queues[q]
                       entry == pred.result.queues[q]
                   IN  /\ entry.exhaustion_probability =
                              C20_QueueStaircase(data.running.n + data.pending.n,
                                                 data.max_jobs.n)
                       /\ (data = C20_HalfFull) =>
                              /\ entry.exhaustion_probability = 0
                              /\ entry.risk_level = "LOW"
    /\ (/\ pred.op = "predict_resource_exhaustion"
        /\ pred.info.shape = "dict"
        /\ pred.info.has = {"lsf"}
        /\ pred.info.lsf.shape = "dict"
        /\ \A q \in DOMAIN pred.info.lsf.queues : pred.info.lsf.queues[q] = C20_HalfFull) =>
           /\ \A q \in DOMAIN pred.info.lsf.queues :
                  /\ pred.result.predictions.queues.queues[q].exhaustion_probability = 0
                  /\ pred.result.predictions.queues.queues[q].risk_level = "LOW"
           /\ pred.result.overall_risk_level = "LOW"

\* Five queues, each with max_jobs 100, 50 pending and none running, were
\* assessed.
C20_Witness ==
    /\ pred.op = "predict_resource_exhaustion"
    /\ pred.info.has = {"lsf"}
    /\ Cardinality(DOMAIN pred.info.lsf.queues) = 5
    /\ \A q \in DOMAIN pred.info.lsf.queues : pred.info.lsf.queues[q] = C20_HalfFull
    /\ pred.result.overall_risk_level = "LOW"

\* C15: the query to the queueing system is bounded by a timeout: a
\* get_current_resources that was entered returns, also when the queueing
\* system never answers.
C15_SampleAlwaysReturns ==
    [](pc["monitor"] = "read" => <>(pc["monitor"] = "return"))

(***************************************************************************)
(* The monitor loop's warnings                                             *)
(***************************************************************************)
\* The monitor iteration that took a sample and went on to its sleep.
C21_SampledIteration ==
    /\ call.op = "_monitor_resources"
    /\ resources.ok
    /\ outcome.status = "slept"

\* C21: in every monitor iteration that obtains a sample, the sample is the
\* newest entry of the telemetry history when the alerts are evaluated, and
\* a warning is logged for the CPU, for the memory and for the storage whose
\* usage is past the critical threshold of its exhaustion forecast, and for
\* the queue whose pending jobs are past the configured queue threshold.
C21_MonitorWarnsPerResource ==
    C21_SampledIteration =>
        /\ history.kind = "dict"
        /\ Len(history.resource_usage) > 0
        /\ history.resource_usage[Len(history.resource_usage)] = resources.timestamp
        /\ (resources.cpu_usage_percent > cpu_critical) => ("cpu" \in outcome.alerts)
        /\ (resources.memory_usage_percent > memory_critical)
               => ("memory" \in outcome.alerts)
        /\ (resources.storage_usage_percent > storage_critical)
               => ("storage" \in outcome.alerts)
        /\ (resources.lsf = "data" /\ resources.pending > config.queue_wait_time)
               => ("queue" \in outcome.alerts)

\* The part of C21 the code keeps: the sample is appended first, and the
\* storage and the queue warnings are logged.
C21_StorageAndQueueWarned ==
    C21_SampledIteration =>
        /\ history.resource_usage[Len(history.resource_usage)] = resources.timestamp
        /\ ("storage" \in outcome.alerts) <=> (resources.storage_usage_percent > 950)
        /\ ("queue" \in outcome.alerts)
               <=> (resources.lsf = "data" /\ resources.pending > 24)

(***************************************************************************)
(* The choice of the queue                                                 *)
(***************************************************************************)
\* allocate_resources returned an allocation for the requirement call.req.
C22_Allocated ==
    /\ call.op = "allocate_resources"
    /\ outcome.status = "ok"

C22_ScoreOf(queue_name) ==
    Score(config, CandidateAllocation(config, Requirements[call.req], queue_name))

\* C22: the queue of the returned allocation is a feasible queue of minimal
\* score, and every feasible queue enumerated before it has a strictly larger
\* score (of several queues with the minimal score the first one enumerated
\* wins); the queue is a function of the requirement and the catalog.
C22_MinimalScoreFirstWins ==
    C22_Allocated =>
        LET available_queues == get_available_queues(config, Requirements[call.req])
        IN  /\ outcome.allocation.queue
                = _calculate_optimal_allocation(config, Requirements[call.req]).queue
            /\ \E i \in DOMAIN available_queues :
                  /\ available_queues[i] = outcome.allocation.queue
                  /\ \A j \in DOMAIN available_queues :
                        C22_ScoreOf(available_queues[j]) >= C22_ScoreOf(available_queues[i])
                  /\ \A j \in 1..(i - 1) :
                        C22_ScoreOf(available_queues[j]) > C22_ScoreOf(available_queues[i])

\* Two feasible queues share the minimal score and the first of them was
\* chosen.
C22_Witness ==
    /\ C22_Allocated
    /\ LET available_queues == get_available_queues(config, Requirements[call.req])
       IN  /\ Len(available_queues) >= 2
           /\ available_queues[1] = outcome.allocation.queue
           /\ C22_ScoreOf(available_queues[2]) = C22_ScoreOf(available_queues[1])

\* Several feasible queues of different scores, and the one chosen is not
\* the first enumerated.
C22_WitnessLaterQueue ==
    /\ C22_Allocated
    /\ LET available_queues == get_available_queues(config, Requirements[call.req])
       IN  /\ Len(available_queues) >= 3
           /\ available_queues[1] # outcome.allocation.queue

(***************************************************************************)
(* The corrective pass of allocate_resources                               *)
(***************************************************************************)
\* The allocation the scoring chose for the call, before its validation.
ChosenAllocation == _calculate_optimal_allocation(config, Requirements[call.req])

OverCeiling(allocation) == allocation.estimated_cost > config.max_cost_per_job

\* C23: when the cost of the chosen allocation exceeds max_cost_per_job the
\* returned allocation has half the cpus (at least 1) and half the memory (at
\* least 8 GB) of the chosen one and the cost estimated from these halved
\* values, whether or not that cost is still over the ceiling; otherwise the
\* chosen allocation is returned unchanged.
C23_SingleCorrectivePass ==
    (call.op = "allocate_resources" /\ outcome.status = "ok") =>
        IF OverCeiling(ChosenAllocation)
        THEN /\ outcome.allocation.cpus = Max2(1, ChosenAllocation.cpus \div 2)
             /\ outcome.allocation.memory_gb = Max2(8, ChosenAllocation.memory_gb \div 2)
             /\ outcome.allocation.estimated_cost
                    = estimate_job_cost(config, outcome.allocation.cpus,
                                        outcome.allocation.memory_gb,
                                        ChosenAllocation.walltime_hours,
                                        ChosenAllocation.queue)
        ELSE outcome.allocation = ChosenAllocation

\* The pass ran, the memory floor bound, and the cost it estimated is still
\* over the ceiling.
C23_Witness ==
    /\ call.op = "allocate_resources"
    /\ outcome.status = "ok"
    /\ OverCeiling(ChosenAllocation)
    /\ OverCeiling(outcome.allocation)
    /\ outcome.allocation.cpus < ChosenAllocation.cpus
    /\ outcome.allocation.memory_gb = 8

\* An allocation under the ceiling, returned as chosen.
C23_WitnessUnchanged ==
    /\ call.op = "allocate_resources"
    /\ outcome.status = "ok"
    /\ ~OverCeiling(ChosenAllocation)
    /\ outcome.allocation.cpus > 0

\* The corrective pass changed the cpus or the memory of the chosen
\* allocation.
C28_PassChanged ==
    /\ call.op = "allocate_resources"
    /\ outcome.status = "ok"
    /\ OverCeiling(ChosenAllocation)
    /\ \/ outcome.allocation.cpus # ChosenAllocation.cpus
       \/ outcome.allocation.memory_gb # ChosenAllocation.memory_gb

\* C28: when the corrective pass changes cpus and memory, the returned
\* allocation, which is also the one recorded last in job_history, keeps the
\* queue, the walltime, the predicted duration and the success probability
\* of the chosen allocation, that is, the duration and the probability
\* predicted for the cpus and memory before the halving.
C28_PassKeepsQueueAndPredictions ==
    C28_PassChanged =>
        LET requirements == Requirements[call.req]
            chosen == ChosenAllocation
            recorded == history.job_history[Len(history.job_history)].allocation
        IN  /\ outcome.allocation.queue = chosen.queue
            /\ outcome.allocation.walltime_hours = chosen.walltime_hours
            /\ outcome.allocation.estimated_duration_hours
                   = predict_job_duration(requirements, chosen.cpus,
                                          chosen.memory_gb, chosen.queue)
            /\ outcome.allocation.success_probability
                   = predict_job_success_probability(requirements, chosen.cpus,
                                                     chosen.memory_gb, chosen.queue)
            /\ recorded = outcome.allocation

\* The pass halved the cpus, and the duration returned is not the one the
\* predictor gives for the halved cpus.
C28_Witness ==
    /\ C28_PassChanged
    /\ outcome.allocation.cpus < ChosenAllocation.cpus
    /\ outcome.allocation.estimated_duration_hours
           # predict_job_duration(Requirements[call.req], outcome.allocation.cpus,
                                  outcome.allocation.memory_gb, outcome.allocation.queue)

(***************************************************************************)
(* The overall risk                                                        *)
(***************************************************************************)
C24_Levels == {"LOW", "MODERATE", "HIGH", "CRITICAL"}

C24_Rank(level) ==
    CASE level = "LOW" -> 1
      [] level = "MODERATE" -> 2
      [] level = "HIGH" -> 3
      [] level = "CRITICAL" -> 4

\* The risk levels of the forecasts of a result: of the three resource
\* types and of every queue.
C24_ForecastLevels(result) ==
    ({ result.predictions[r].risk_level : r \in {"cpu", "memory", "storage"} }
     \cup { result.predictions.queues.queues[q].risk_level :
                q \in DOMAIN result.predictions.queues.queues })
        \cap C24_Levels

C24_Assessed ==
    /\ pred.op = "predict_resource_exhaustion"
    /\ pred.info.shape = "dict"

\* C24: the overall risk level of predict_resource_exhaustion is the highest
\* of the risk levels of the resource types and of the queues in the
\* forecast, in the order LOW < MODERATE < HIGH < CRITICAL: it is one of
\* them and none of them is higher.
C24_OverallRiskIsMaximum ==
    (C24_Assessed /\ C24_ForecastLevels(pred.result) # {}) =>
        /\ pred.result.overall_risk_level \in C24_ForecastLevels(pred.result)
        /\ \A level \in C24_ForecastLevels(pred.result) :
               C24_Rank(level) <= C24_Rank(pred.result.overall_risk_level)

\* The same for the clusters with no queue named "error" or "risk_level",
\* where the forecasts with a level are those of the sections that were
\* assessed without an error.
C24_MaximumOfOrdinaryQueues ==
    (/\ C24_Assessed
     /\ C24_ForecastLevels(pred.result) # {}
     /\ DOMAIN pred.result.predictions.queues.queues \cap {"error", "risk_level"} = {}) =>
        /\ pred.result.overall_risk_level \in C24_ForecastLevels(pred.result)
        /\ \A level \in C24_ForecastLevels(pred.result) :
               C24_Rank(level) <= C24_Rank(pred.result.overall_risk_level)

(***************************************************************************)
(* The time to exhaustion at critical usage                                *)
(***************************************************************************)
\* A per-resource forecast for a usage of at least 95% given as a number,
\* with a numeric available amount.
C25_CriticalExhaustionCall ==
    /\ pred.op \in {"_predict_cpu_exhaustion", "_predict_memory_exhaustion",
                    "_predict_storage_exhaustion"}
    /\ pred.info.shape = "dict"
    /\ pred.info.usage_percent.type = "number"
    /\ pred.info.usage_percent.n >= 950
    /\ pred.info.available.type = "number"

\* A storage failure prediction for a usage fraction in [0.95, 1] and a
\* growth rate that is a number and not negative.
C25_CriticalFailureCall ==
    /\ pred.op = "predict_storage_failure"
    /\ pred.current_usage.type = "number"
    /\ pred.current_usage.n \in 950..1000
    /\ pred.growth_rate.type = "number"
    /\ pred.growth_rate.n >= 0

\* The three exhaustion estimators answer 0.1 h at a usage of at least 95%.
C25_ExhaustionTimeIsMinimal ==
    C25_CriticalExhaustionCall => pred.result.time_to_exhaustion_hours = 100

\* C25: at a usage fraction of at least 0.95 every predictor reports a
\* strictly positive, finite time: the exhaustion estimators their minimal
\* 0.1 h, and the storage failure predictor a time that is neither 0 nor
\* unbounded (also at usage 0.996 with growth 0.05).
C25_CriticalUsageTimeIsPositive ==
    /\ C25_ExhaustionTimeIsMinimal
    /\ C25_CriticalFailureCall =>
           /\ ~pred.result.time_to_failure_hours.inf
           /\ pred.result.time_to_failure_hours.n > 0

(***************************************************************************)
(* The duration and the catalog                                            *)
(***************************************************************************)
\* storage_gb / (cpus * 0.1) * speed_factor with the speed_factor of the
\* queue's catalog entry, in units of 1/25600 hour.
C26_CatalogDuration(requirements, cpus, queue) ==
    (requirements.storage_gb * config.queues[queue].speed_factor * 25600) \div cpus

\* C26: the duration of the allocation allocate_resources returns is
\* storage_gb / (cpus * 0.1) times the speed_factor the catalog holds for
\* the chosen queue, for the default queues and for the queues a persisted
\* configuration adds (cpus are those the scoring chose).
C26_DurationUsesCatalogSpeedFactor ==
    (call.op = "allocate_resources" /\ outcome.status = "ok") =>
        outcome.allocation.estimated_duration_hours
            = C26_CatalogDuration(Requirements[call.req], ChosenAllocation.cpus,
                                  outcome.allocation.queue)

\* The part of C26 that holds: the formula, with the factor the predictor's
\* own table gives for the queue.
C26_DurationUsesPredictorTable ==
    (call.op = "allocate_resources" /\ outcome.status = "ok") =>
        outcome.allocation.estimated_duration_hours
            = (Requirements[call.req].storage_gb
                   * _get_queue_speed_factor(outcome.allocation.queue) * 25600)
                  \div ChosenAllocation.cpus

(***************************************************************************)
(* The chunk size predicted from the history                               *)
(***************************************************************************)
\* The places of the newest RecentWindow records of a list (the code's
\* window is 100 records).
C27_Window(jobs) == { i \in DOMAIN jobs : i > Len(jobs) - RecentWindow }

C27_Similar(jobs) ==
    { i \in C27_Window(jobs) : jobs[i].requirements.storage_gb > 0 }

RECURSIVE C27_Sum(_, _)
C27_Sum(jobs, places) ==
    IF places = {} THEN 0
    ELSE LET i == CHOOSE i \in places : TRUE
         IN  100 * jobs[i].allocation.cpus + C27_Sum(jobs, places \ {i})

C27_Expected(jobs) ==
    IF C27_Similar(jobs) = {} THEN 1000
    ELSE C27_Sum(jobs, C27_Similar(jobs)) \div Cardinality(C27_Similar(jobs))

C29_FailedAllocateKeepsSample ==
    [][\A req \in ReqIds :
          (/\ Allocate(req)
           /\ get_available_queues(config, Requirements[req]) = <<>>) =>
              /\ outcome'.status = "AttributeError"
              /\ history'.job_history = history.job_history
              /\ resources'.ok =>
                     /\ history'.resource_usage # <<>>
                     /\ history'.resource_usage[Len(history'.resource_usage)]
                            = resources'.timestamp
                     /\ history'.resource_usage
                            = AppendCapped(history.resource_usage, snap_seq)
                     /\ history' # history]_vars

\* No queue takes 40 cpus in the default catalog: the call failed, an
\* earlier allocation is still the newest record, and the snapshot of the
\* failed call is in the telemetry history.
C29_Witness ==
    /\ call.op = "allocate_resources"
    /\ outcome.status = "AttributeError"
    /\ get_available_queues(config, Requirements[call.req]) = <<>>
    /\ resources.ok
    /\ history.kind = "dict"
    /\ history.job_history # <<>>
    /\ Len(history.resource_usage) >= 2
    /\ history.resource_usage[Len(history.resource_usage)] = resources.timestamp

(***************************************************************************)
(* The levels the CPU and the queues can reach                             *)
(***************************************************************************)
C30_BelowCritical == {"LOW", "MODERATE", "HIGH", "UNKNOWN"}

\* The levels of the entries of a queue forecast that carry a level.
C30_QueueLevels(forecast) ==
    { forecast.queues[q].risk_level :
          q \in { q \in DOMAIN forecast.queues :
                      "risk_level" \in forecast.queues[q].keys } }

\* C30: whatever the input, the CPU forecast and the forecast of every queue
\* have a risk level among LOW, MODERATE, HIGH and UNKNOWN and never
\* CRITICAL, their highest probability being 0.8, which is not above 0.8;
\* in a whole prediction only memory and storage can be CRITICAL.
C30_CpuAndQueuesNeverCritical ==
    /\ (pred.op = "_predict_cpu_exhaustion") =>
           /\ pred.result.risk_level \in C30_BelowCritical
           /\ pred.result.exhaustion_probability <= 80
    /\ (pred.op = "_predict_queue_exhaustion") =>
           /\ C30_QueueLevels(pred.result) \subseteq C30_BelowCritical
           /\ \A q \in DOMAIN pred.result.queues :
                  pred.result.queues[q].exhaustion_probability <= 80
    /\ (pred.op = "predict_resource_exhaustion" /\ pred.info.shape = "dict") =>
           /\ ("cpu" \in pred.info.has) =>
                  pred.result.predictions.cpu.risk_level \in C30_BelowCritical
           /\ C30_QueueLevels(pred.result.predictions.queues) \subseteq C30_BelowCritical
           /\ \A r \in {"cpu", "memory", "storage"} :
                  (pred.result.predictions[r].risk_level = "CRITICAL")
                      => r \in {"memory", "storage"}

\* A CPU at 99.6% usage: the probability is at its highest stage, 0.8, and
\* the level is HIGH.
C30_Witness ==
    /\ pred.op = "_predict_cpu_exhaustion"
    /\ pred.info.shape = "dict"
    /\ pred.info.usage_percent = Number(996)
    /\ pred.result.exhaustion_probability = 80
    /\ pred.result.risk_level = "HIGH"

\* A queue over 90% full is HIGH, and the storage of the same prediction is
\* CRITICAL.
C30_WitnessQueueAndStorage ==
    /\ pred.op = "predict_resource_exhaustion"
    /\ pred.info.shape = "dict"
    /\ "HIGH" \in C30_QueueLevels(pred.result.predictions.queues)
    /\ pred.result.predictions.storage.risk_level = "CRITICAL"

====
